---------------------------- MODULE Spec2Model ----------------------------
(***************************************************************************)
(* Loan Qualifier Application (loan_qualifier_app/app.py).                 *)
(*                                                                         *)
(* run() calls, in this order, load_bank_data, get_applicant_info,         *)
(* find_qualifying_loans and save_qualifying_loans.  The model follows the *)
(* control flow of app.py statement by statement.  The helpers app.py      *)
(* imports from the qualifier package (load_csv, save_csv, the two ratio   *)
(* calculators and the four filters) are modelled from their description   *)
(* in the specification, sections 4.1, 4.2 and 6.                          *)
(*                                                                         *)
(* Numbers.  Python floats are represented by exact rationals: a quotient  *)
(* is a record [num, den] in lowest terms with den > 0, and two quotients  *)
(* are compared by cross multiplication.  IEEE division is correctly       *)
(* rounded and monotone, so the order of a quotient and a threshold is the *)
(* exact one whenever the two do not round to the same float; the          *)
(* quotients of the model (denominators up to MaxMoney) and its thresholds *)
(* are equal as floats exactly when they are equal as rationals.  The      *)
(* applicant's figures are drawn from non-negative integers: negative      *)
(* amounts, which get_applicant_info does not reject, are left out.        *)
(***************************************************************************)
EXTENDS Integers, Sequences, FiniteSets, TLC

VARIABLES
    pc,                  \* the statement of run() that executes next
    files,               \* the file system: path -> [exists, well_formed, rows]
    bank_data,           \* run(): bank_data (the list load_csv returned)
    applicant,           \* run(): credit_score, debt, income, loan_amount, home_value
    monthly_debt_ratio,  \* find_qualifying_loans: local
    loan_to_value_ratio, \* find_qualifying_loans: local
    bank_data_filtered,  \* find_qualifying_loans: local
    qualifying_loans,    \* run(): qualifying_loans
    returned,            \* find_qualifying_loans has returned
    stage_out,           \* history: the list each filter call returned, in order
    calls,               \* history: the functions entered, in order
    prompts,             \* history: the questionary prompts shown, in order
    stdout,              \* history: the lines printed
    sink_calls,          \* history: the calls of save_csv, [path, rows]
    csvpath,             \* load_bank_data: the path the user entered
    saveFile,            \* save_qualifying_loans: the answer to the confirmation
    exit_code,           \* the process's exit code once it has ended
    stderr               \* what the process wrote when it ended abnormally

vars == <<pc, files, bank_data, applicant, monthly_debt_ratio, loan_to_value_ratio,
          bank_data_filtered, qualifying_loans, returned, stage_out, calls, prompts,
          stdout, sink_calls, csvpath, saveFile, exit_code, stderr>>

---------------------------------------------------------------------------
(* Bounds of the model *)

\* The longest rate sheet (number of bank records).
MaxRows == 2

\* Monetary amounts the applicant may enter are 0..MaxMoney.
MaxMoney == 2

Money == 0 .. MaxMoney

CreditScores == {2, 3}

---------------------------------------------------------------------------
(* Rationals standing for the floats of the program *)

RECURSIVE GCD(_, _)
GCD(a, b) == IF b = 0 THEN a ELSE GCD(b, a % b)

\* a / b for b # 0 and a >= 0, b > 0 in the model: the quotient in lowest terms.
Quotient(a, b) == [num |-> a \div GCD(a, b), den |-> b \div GCD(a, b)]

\* Python raises ZeroDivisionError on a float division by 0.0.
RaisesZeroDivision(denominator) == denominator = 0

RatioLeq(x, y) == x.num * y.den <= y.num * x.den

\* The value of a local that has not been assigned yet.
NoRatio == [num |-> 0, den |-> 1]

\* f"{x:.02f}": x in hundredths, rounded to the nearest.
Format02f(x) == (200 * x.num + x.den) \div (2 * x.den)

---------------------------------------------------------------------------
(* Data *)

Ratio(n, d) == Quotient(n, d)

\* LoanRecord: [lender, max_loan_amount, max_ltv_ratio, max_dti_ratio,
\*              min_credit_score, interest_rate]
LoanRecord(lender, loan, ltv, dti, score, rate) ==
    [lender |-> lender, max_loan_amount |-> loan, max_ltv_ratio |-> ltv,
     max_dti_ratio |-> dti, min_credit_score |-> score, interest_rate |-> rate]

\* The records a rate sheet may hold: one that is loose on every criterion and
\* one that is tight on each criterion alone.
Records ==
    { LoanRecord("BankA", 2, Ratio(1, 1), Ratio(1, 1), 2, 3),
      LoanRecord("BankB", 1, Ratio(1, 1), Ratio(1, 1), 2, 4),
      LoanRecord("BankC", 2, Ratio(1, 1), Ratio(1, 1), 3, 2),
      LoanRecord("BankD", 2, Ratio(1, 1), Ratio(1, 2), 2, 5),
      LoanRecord("BankE", 2, Ratio(1, 2), Ratio(1, 1), 2, 6) }

RateSheets == UNION { [1 .. n -> Records] : n \in 0 .. MaxRows }

Paths == {"rates.csv", "missing.csv", "out.csv"}

NoFile == [exists |-> FALSE, well_formed |-> FALSE, rows |-> <<>>]

CsvFile(rows) == [exists |-> TRUE, well_formed |-> TRUE, rows |-> rows]

MalformedFile == [exists |-> TRUE, well_formed |-> FALSE, rows |-> <<>>]

NoApplicant ==
    [credit_score |-> 0, debt |-> 0, income |-> 0, loan_amount |-> 0, home_value |-> 0]

Applicants ==
    [credit_score : CreditScores, debt : Money, income : Money,
     loan_amount : Money, home_value : Money]

---------------------------------------------------------------------------
(* qualifier.utils.calculators *)

calculate_monthly_debt_ratio(debt, income) == Quotient(debt, income)

calculate_loan_to_value_ratio(loan_amount, home_value) == Quotient(loan_amount, home_value)

---------------------------------------------------------------------------
(* qualifier.filters: each scans the list front to back and appends the      *)
(* records that pass to a new list.                                          *)

RECURSIVE filter_max_loan_size(_, _)
filter_max_loan_size(loan_amount, bank_list) ==
    IF bank_list = <<>> THEN <<>>
    ELSE LET bank == Head(bank_list)
             rest == filter_max_loan_size(loan_amount, Tail(bank_list))
         IN  IF bank.max_loan_amount >= loan_amount THEN <<bank>> \o rest ELSE rest

RECURSIVE filter_credit_score(_, _)
filter_credit_score(credit_score, bank_list) ==
    IF bank_list = <<>> THEN <<>>
    ELSE LET bank == Head(bank_list)
             rest == filter_credit_score(credit_score, Tail(bank_list))
         IN  IF bank.min_credit_score <= credit_score THEN <<bank>> \o rest ELSE rest

RECURSIVE filter_debt_to_income(_, _)
filter_debt_to_income(debt_ratio, bank_list) ==
    IF bank_list = <<>> THEN <<>>
    ELSE LET bank == Head(bank_list)
             rest == filter_debt_to_income(debt_ratio, Tail(bank_list))
         IN  IF RatioLeq(debt_ratio, bank.max_dti_ratio) THEN <<bank>> \o rest ELSE rest

RECURSIVE filter_loan_to_value(_, _)
filter_loan_to_value(ltv_ratio, bank_list) ==
    IF bank_list = <<>> THEN <<>>
    ELSE LET bank == Head(bank_list)
             rest == filter_loan_to_value(ltv_ratio, Tail(bank_list))
         IN  IF RatioLeq(ltv_ratio, bank.max_ltv_ratio) THEN <<bank>> \o rest ELSE rest

---------------------------------------------------------------------------
(* qualifier.utils.fileio *)

\* load_csv(csvpath): the rows of the file after its header.
load_csv(path) == files[path].rows

\* save_csv(csvpath, rows): the file system after the rows are written.
save_csv(path, rows) == [files EXCEPT ![path] = CsvFile(rows)]

---------------------------------------------------------------------------
(* The initial state: run() has been entered, the rate sheet is on disk.   *)

Init ==
    /\ pc = "load_bank_data"
    /\ \E sheet \in {CsvFile(rows) : rows \in RateSheets} \cup {MalformedFile} :
          files = [p \in Paths |-> IF p = "rates.csv" THEN sheet ELSE NoFile]
    /\ bank_data = <<>>
    /\ applicant = NoApplicant
    /\ monthly_debt_ratio = NoRatio
    /\ loan_to_value_ratio = NoRatio
    /\ bank_data_filtered = <<>>
    /\ qualifying_loans = <<>>
    /\ returned = FALSE
    /\ stage_out = <<>>
    /\ calls = <<>>
    /\ prompts = <<>>
    /\ stdout = <<>>
    /\ sink_calls = <<>>
    /\ csvpath = ""
    /\ saveFile = "not asked"
    /\ exit_code = 0
    /\ stderr = ""

\* sys.exit(message): the message goes to stderr and the exit code is 1.
SysExit(message) ==
    /\ pc' = "exited"
    /\ exit_code' = 1
    /\ stderr' = message

\* An exception nobody catches: the traceback names it and the exit code is 1.
Uncaught(exception) ==
    /\ pc' = "crashed"
    /\ exit_code' = 1
    /\ stderr' = exception

---------------------------------------------------------------------------
(* load_bank_data *)

\* The variables of find_qualifying_loans and save_qualifying_loans.
laterVars == <<monthly_debt_ratio, loan_to_value_ratio, bank_data_filtered,
               qualifying_loans, returned, stage_out, stdout, sink_calls, saveFile>>

\* load_bank_data without the check that the path exists: load_csv opens a
\* file that is not there.
LoadBankData_NoExistsCheck ==
    /\ pc = "load_bank_data"
    /\ \E p \in Paths :
          /\ csvpath' = p
          /\ prompts' = Append(prompts, "Enter a file path to a rate-sheet (.csv):")
          /\ calls' = calls \o <<"load_bank_data", "load_csv">>
          /\ IF ~files[p].exists
                THEN Uncaught("FileNotFoundError") /\ UNCHANGED bank_data
                ELSE IF ~files[p].well_formed
                        THEN Uncaught("FormatError") /\ UNCHANGED bank_data
                        ELSE /\ bank_data' = load_csv(p)
                             /\ pc' = "get_applicant_info"
                             /\ UNCHANGED <<exit_code, stderr>>
    /\ UNCHANGED <<files, applicant, laterVars>>

LoadBankData ==
    /\ pc = "load_bank_data"
    /\ \E p \in Paths :
          /\ csvpath' = p
          /\ prompts' = Append(prompts, "Enter a file path to a rate-sheet (.csv):")
          /\ IF ~files[p].exists
                THEN /\ SysExit("Oops! Can't find this path")
                     /\ calls' = Append(calls, "load_bank_data")
                     /\ UNCHANGED bank_data
                ELSE /\ calls' = calls \o <<"load_bank_data", "load_csv">>
                     /\ IF ~files[p].well_formed
                           THEN Uncaught("FormatError") /\ UNCHANGED bank_data
                           ELSE /\ bank_data' = load_csv(p)
                                /\ pc' = "get_applicant_info"
                                /\ UNCHANGED <<exit_code, stderr>>
    /\ UNCHANGED <<files, applicant, laterVars>>

---------------------------------------------------------------------------
(* get_applicant_info *)

ApplicantPrompts ==
    << "What's your credit score?",
       "What's your current amount of monthly debt?",
       "What's your total monthly income?",
       "What's your desired loan amount?",
       "What's your home value?" >>

GetApplicantInfo ==
    /\ pc = "get_applicant_info"
    /\ calls' = Append(calls, "get_applicant_info")
    /\ prompts' = prompts \o ApplicantPrompts
    /\ \/ \E a \in Applicants :
             /\ applicant' = a
             /\ pc' = "calculate_monthly_debt_ratio"
             /\ UNCHANGED <<exit_code, stderr>>
       \/ \* an answer that int() or float() cannot convert
          /\ Uncaught("ValueError")
          /\ UNCHANGED applicant
    /\ UNCHANGED <<files, bank_data, csvpath, laterVars>>

---------------------------------------------------------------------------
(* find_qualifying_loans *)

findFrame == <<files, bank_data, applicant, prompts, sink_calls, csvpath, saveFile,
               qualifying_loans, returned>>

\* The ratio is computed with its arguments exchanged.
CalculateMonthlyDebtRatio_Swapped ==
    /\ pc = "calculate_monthly_debt_ratio"
    /\ calls' = Append(calls, "find_qualifying_loans")
    /\ IF RaisesZeroDivision(applicant.debt)
          THEN /\ Uncaught("ZeroDivisionError")
               /\ UNCHANGED <<monthly_debt_ratio, stdout>>
          ELSE /\ monthly_debt_ratio' =
                      calculate_monthly_debt_ratio(applicant.income, applicant.debt)
               /\ stdout' = Append(stdout,
                      [text |-> "The monthly debt to income ratio is",
                       value |-> Format02f(monthly_debt_ratio')])
               /\ pc' = "calculate_loan_to_value_ratio"
               /\ UNCHANGED <<exit_code, stderr>>
    /\ UNCHANGED <<findFrame, loan_to_value_ratio, bank_data_filtered, stage_out>>

CalculateMonthlyDebtRatio ==
    /\ pc = "calculate_monthly_debt_ratio"
    /\ calls' = Append(calls, "find_qualifying_loans")
    /\ IF RaisesZeroDivision(applicant.income)
          THEN /\ Uncaught("ZeroDivisionError")
               /\ UNCHANGED <<monthly_debt_ratio, stdout>>
          ELSE /\ monthly_debt_ratio' =
                      calculate_monthly_debt_ratio(applicant.debt, applicant.income)
               /\ stdout' = Append(stdout,
                      [text |-> "The monthly debt to income ratio is",
                       value |-> Format02f(monthly_debt_ratio')])
               /\ pc' = "calculate_loan_to_value_ratio"
               /\ UNCHANGED <<exit_code, stderr>>
    /\ UNCHANGED <<findFrame, loan_to_value_ratio, bank_data_filtered, stage_out>>

CalculateLoanToValueRatio ==
    /\ pc = "calculate_loan_to_value_ratio"
    /\ IF RaisesZeroDivision(applicant.home_value)
          THEN /\ Uncaught("ZeroDivisionError")
               /\ UNCHANGED <<loan_to_value_ratio, stdout>>
          ELSE /\ loan_to_value_ratio' =
                      calculate_loan_to_value_ratio(applicant.loan_amount, applicant.home_value)
               /\ stdout' = Append(stdout,
                      [text |-> "The loan to value ratio is",
                       value |-> Format02f(loan_to_value_ratio')])
               /\ pc' = "filter_max_loan_size"
               /\ UNCHANGED <<exit_code, stderr>>
    /\ UNCHANGED <<findFrame, calls, monthly_debt_ratio, bank_data_filtered, stage_out>>

filterFrame == <<findFrame, calls, monthly_debt_ratio, loan_to_value_ratio, stdout,
                 exit_code, stderr>>

\* The filter is handed the credit score where the loan amount belongs.
FilterMaxLoanSize_WrongThreshold ==
    /\ pc = "filter_max_loan_size"
    /\ bank_data_filtered' = filter_max_loan_size(applicant.credit_score, bank_data)
    /\ stage_out' = Append(stage_out, bank_data_filtered')
    /\ pc' = "filter_credit_score"
    /\ UNCHANGED filterFrame

FilterMaxLoanSize ==
    /\ pc = "filter_max_loan_size"
    /\ bank_data_filtered' = filter_max_loan_size(applicant.loan_amount, bank_data)
    /\ stage_out' = Append(stage_out, bank_data_filtered')
    /\ pc' = "filter_credit_score"
    /\ UNCHANGED filterFrame

\* The second filter is run on the list as loaded, which drops the first
\* filter's result.
FilterCreditScore_OnBankData ==
    /\ pc = "filter_credit_score"
    /\ bank_data_filtered' = filter_credit_score(applicant.credit_score, bank_data)
    /\ stage_out' = Append(stage_out, bank_data_filtered')
    /\ pc' = "filter_debt_to_income"
    /\ UNCHANGED filterFrame

FilterCreditScore ==
    /\ pc = "filter_credit_score"
    /\ bank_data_filtered' = filter_credit_score(applicant.credit_score, bank_data_filtered)
    /\ stage_out' = Append(stage_out, bank_data_filtered')
    /\ pc' = "filter_debt_to_income"
    /\ UNCHANGED filterFrame

\* The filter removes the failing records from the list it is handed and
\* returns that same list: the caller's list shrinks with it.
FilterDebtToIncome_InPlace ==
    /\ pc = "filter_debt_to_income"
    /\ bank_data_filtered' = filter_debt_to_income(monthly_debt_ratio, bank_data_filtered)
    /\ bank_data' = bank_data_filtered'
    /\ stage_out' = Append(stage_out, bank_data_filtered')
    /\ pc' = "filter_loan_to_value"
    /\ UNCHANGED <<files, applicant, prompts, sink_calls, csvpath, saveFile,
                   qualifying_loans, returned, calls, monthly_debt_ratio,
                   loan_to_value_ratio, stdout, exit_code, stderr>>

FilterDebtToIncome ==
    /\ pc = "filter_debt_to_income"
    /\ bank_data_filtered' = filter_debt_to_income(monthly_debt_ratio, bank_data_filtered)
    /\ stage_out' = Append(stage_out, bank_data_filtered')
    /\ pc' = "filter_loan_to_value"
    /\ UNCHANGED filterFrame

\* The last filter is handed the debt ratio where the loan to value ratio belongs.
FilterLoanToValue_WrongRatio ==
    /\ pc = "filter_loan_to_value"
    /\ bank_data_filtered' = filter_loan_to_value(monthly_debt_ratio, bank_data_filtered)
    /\ stage_out' = Append(stage_out, bank_data_filtered')
    /\ pc' = "return_qualifying_loans"
    /\ UNCHANGED filterFrame

FilterLoanToValue ==
    /\ pc = "filter_loan_to_value"
    /\ bank_data_filtered' = filter_loan_to_value(loan_to_value_ratio, bank_data_filtered)
    /\ stage_out' = Append(stage_out, bank_data_filtered')
    /\ pc' = "return_qualifying_loans"
    /\ UNCHANGED filterFrame

ReturnQualifyingLoans ==
    /\ pc = "return_qualifying_loans"
    /\ stdout' = Append(stdout, [text |-> "Found qualifying loans",
                                 value |-> Len(bank_data_filtered)])
    /\ qualifying_loans' = bank_data_filtered
    /\ returned' = TRUE
    /\ pc' = "save_qualifying_loans"
    /\ UNCHANGED <<files, bank_data, applicant, monthly_debt_ratio, loan_to_value_ratio,
                   bank_data_filtered, stage_out, calls, prompts, sink_calls, csvpath,
                   saveFile, exit_code, stderr>>

\* The value find_qualifying_loans returns, for income # 0 and home_value # 0.
find_qualifying_loans(bank, credit_score, debt, income, loan, home_value) ==
    LET dti    == calculate_monthly_debt_ratio(debt, income)
        ltv    == calculate_loan_to_value_ratio(loan, home_value)
        first  == filter_max_loan_size(loan, bank)
        second == filter_credit_score(credit_score, first)
        third  == filter_debt_to_income(dti, second)
    IN  filter_loan_to_value(ltv, third)

---------------------------------------------------------------------------
(* save_qualifying_loans *)

saveFrame == <<bank_data, applicant, monthly_debt_ratio, loan_to_value_ratio,
               bank_data_filtered, qualifying_loans, returned, stage_out, stdout, csvpath>>

\* save_qualifying_loans without the check for an empty list.
SaveQualifyingLoans_NoEmptyCheck ==
    /\ pc = "save_qualifying_loans"
    /\ \E answer \in BOOLEAN :
          /\ saveFile' = IF answer THEN "yes" ELSE "no"
          /\ IF answer
                THEN \E path \in Paths :
                        /\ prompts' = prompts \o
                               << "Would you like to save the qualifying loans?",
                                  "Please enter a filepath for the saved data:" >>
                        /\ calls' = calls \o <<"save_qualifying_loans", "save_csv">>
                        /\ sink_calls' = Append(sink_calls,
                               [path |-> path, rows |-> qualifying_loans])
                        /\ files' = save_csv(path, qualifying_loans)
                ELSE /\ prompts' = Append(prompts,
                            "Would you like to save the qualifying loans?")
                     /\ calls' = Append(calls, "save_qualifying_loans")
                     /\ UNCHANGED <<sink_calls, files>>
          /\ pc' = "done"
          /\ exit_code' = 0
          /\ UNCHANGED stderr
    /\ UNCHANGED saveFrame

\* save_csv is handed the list as loaded instead of the qualifying loans, and
\* whatever the answer to the confirmation.
SaveQualifyingLoans_Ungated ==
    /\ pc = "save_qualifying_loans"
    /\ IF qualifying_loans = <<>>
          THEN /\ SysExit("Sorry, there are no qualifying loans!")
               /\ calls' = Append(calls, "save_qualifying_loans")
               /\ UNCHANGED <<prompts, sink_calls, files, saveFile>>
          ELSE \E answer \in BOOLEAN, path \in Paths :
                  /\ saveFile' = IF answer THEN "yes" ELSE "no"
                  /\ prompts' = prompts \o
                         << "Would you like to save the qualifying loans?",
                            "Please enter a filepath for the saved data:" >>
                  /\ calls' = calls \o <<"save_qualifying_loans", "save_csv">>
                  /\ sink_calls' = Append(sink_calls, [path |-> path, rows |-> bank_data])
                  /\ files' = save_csv(path, bank_data)
                  /\ pc' = "done"
                  /\ exit_code' = 0
                  /\ UNCHANGED stderr
    /\ UNCHANGED saveFrame

SaveQualifyingLoans ==
    /\ pc = "save_qualifying_loans"
    /\ IF qualifying_loans = <<>>
          THEN /\ SysExit("Sorry, there are no qualifying loans!")
               /\ calls' = Append(calls, "save_qualifying_loans")
               /\ UNCHANGED <<prompts, sink_calls, files, saveFile>>
          ELSE \E answer \in BOOLEAN :
                  /\ saveFile' = IF answer THEN "yes" ELSE "no"
                  /\ IF answer
                        THEN \E path \in Paths :
                                /\ prompts' = prompts \o
                                       << "Would you like to save the qualifying loans?",
                                          "Please enter a filepath for the saved data:" >>
                                /\ calls' = calls \o <<"save_qualifying_loans", "save_csv">>
                                /\ sink_calls' = Append(sink_calls,
                                       [path |-> path, rows |-> qualifying_loans])
                                /\ files' = save_csv(path, qualifying_loans)
                        ELSE /\ prompts' = Append(prompts,
                                    "Would you like to save the qualifying loans?")
                             /\ calls' = Append(calls, "save_qualifying_loans")
                             /\ UNCHANGED <<sink_calls, files>>
                  /\ pc' = "done"
                  /\ exit_code' = 0
                  /\ UNCHANGED stderr
    /\ UNCHANGED saveFrame

---------------------------------------------------------------------------
(* run *)

Next ==
    \/ LoadBankData
    \/ GetApplicantInfo
    \/ CalculateMonthlyDebtRatio
    \/ CalculateLoanToValueRatio
    \/ FilterMaxLoanSize
    \/ FilterCreditScore
    \/ FilterDebtToIncome
    \/ FilterLoanToValue
    \/ ReturnQualifyingLoans
    \/ SaveQualifyingLoans

Spec == Init /\ [][Next]_vars

---------------------------------------------------------------------------
(* Properties *)

InSeq(x, s) == \E i \in 1 .. Len(s) : s[i] = x

IsPrefix(s, t) == Len(s) <= Len(t) /\ \A i \in 1 .. Len(s) : s[i] = t[i]

\* s can be obtained from t by deleting elements.
RECURSIVE IsSubseq(_, _)
IsSubseq(s, t) ==
    IF s = <<>> THEN TRUE
    ELSE IF t = <<>> THEN FALSE
    ELSE IF Head(s) = Head(t) THEN IsSubseq(Tail(s), Tail(t))
    ELSE IsSubseq(s, Tail(t))

\* The four criteria on the applicant's figures, the ratios compared exactly
\* (threshold >= debt / income  iff  threshold * income >= debt, for income > 0).
LoanSizeOk(r)    == r.max_loan_amount >= applicant.loan_amount
CreditScoreOk(r) == r.min_credit_score <= applicant.credit_score
DebtRatioOk(r)   == r.max_dti_ratio.num * applicant.income
                        >= applicant.debt * r.max_dti_ratio.den
LoanValueOk(r)   == r.max_ltv_ratio.num * applicant.home_value
                        >= applicant.loan_amount * r.max_ltv_ratio.den

Qualifies(r) == LoanSizeOk(r) /\ CreditScoreOk(r) /\ DebtRatioOk(r) /\ LoanValueOk(r)

OnEveryBoundary(r) ==
    /\ r.max_loan_amount = applicant.loan_amount
    /\ r.min_credit_score = applicant.credit_score
    /\ r.max_dti_ratio.num * applicant.income = applicant.debt * r.max_dti_ratio.den
    /\ r.max_ltv_ratio.num * applicant.home_value
           = applicant.loan_amount * r.max_ltv_ratio.den

\* The k-th filter of the pipeline with the applicant's figure for it.
ApplyFilter(k, list) ==
    CASE k = 1 -> filter_max_loan_size(applicant.loan_amount, list)
      [] k = 2 -> filter_credit_score(applicant.credit_score, list)
      [] k = 3 -> filter_debt_to_income(monthly_debt_ratio, list)
      [] k = 4 -> filter_loan_to_value(loan_to_value_ratio, list)

\* The filters applied in the order order[1], order[2], order[3], order[4].
InOrder(order, list) ==
    ApplyFilter(order[4], ApplyFilter(order[3], ApplyFilter(order[2],
        ApplyFilter(order[1], list))))

\* The input of the k-th filter call of the run.
StageIn(k) == IF k = 1 THEN bank_data ELSE stage_out[k - 1]

RatioThresholds == { Quotient(n, d) : n \in Money, d \in Money \ {0} }

ConfirmPrompt == "Would you like to save the qualifying loans?"
PathPrompt == "Please enter a filepath for the saved data:"

\* The file system as it was when run() began, given what was loaded from it.
FilesUntouched ==
    \A p \in Paths : files[p] = IF p = csvpath THEN CsvFile(bank_data) ELSE NoFile

\* C1: once find_qualifying_loans has returned (so income > 0 and home_value > 0),
\* its result is exactly the records of bank_data, in order, that satisfy all
\* four criteria with inclusive boundaries: the single pass with the
\* conjunction of the four predicates.
C1_ConjunctionOfFour ==
    returned =>
        /\ applicant.income > 0 /\ applicant.home_value > 0
        /\ qualifying_loans = SelectSeq(bank_data, Qualifies)

\* A record that sits on all four boundaries is kept while another is removed.
C1_Witness ==
    /\ returned
    /\ Len(qualifying_loans) < Len(bank_data)
    /\ \E i \in 1 .. Len(qualifying_loans) : OnEveryBoundary(qualifying_loans[i])

\* C2: every filter call returns a subsequence of the list it was handed (so
\* the candidate count never grows from one stage to the next), and the result
\* of find_qualifying_loans is a subsequence of bank_data.
C2_Stability ==
    /\ \A k \in 1 .. Len(stage_out) :
          /\ IsSubseq(stage_out[k], StageIn(k))
          /\ Len(stage_out[k]) <= Len(StageIn(k))
    /\ returned => IsSubseq(qualifying_loans, bank_data)

\* The first of two different records is removed and the second survives.
C2_Witness ==
    /\ returned
    /\ Len(bank_data) = 2
    /\ bank_data[1] # bank_data[2]
    /\ qualifying_loans = <<bank_data[2]>>
    /\ \E k \in 2 .. Len(stage_out) : Len(stage_out[k]) < Len(StageIn(k))

\* C3: the four filters applied in any of their 24 orders to bank_data with the
\* applicant's figures give the list find_qualifying_loans returned.
C3_OrderIndependence ==
    returned =>
        \A order \in Permutations(1 .. 4) : InOrder(order, bank_data) = qualifying_loans

\* Another order has a different intermediate count and the same result.
C3_Witness ==
    /\ returned
    /\ qualifying_loans # <<>>
    /\ \E order \in Permutations(1 .. 4) :
          /\ Len(ApplyFilter(order[1], bank_data)) # Len(stage_out[1])
          /\ InOrder(order, bank_data) = qualifying_loans

\* C4: each filter, with any threshold, applied to its own output returns that
\* output; and find_qualifying_loans run on its own result with the same
\* applicant returns that result.
C4_Idempotence ==
    /\ \A t \in Money :
          LET out == filter_max_loan_size(t, bank_data)
          IN  filter_max_loan_size(t, out) = out
    /\ \A t \in CreditScores :
          LET out == filter_credit_score(t, bank_data)
          IN  filter_credit_score(t, out) = out
    /\ \A t \in RatioThresholds :
          /\ LET out == filter_debt_to_income(t, bank_data)
             IN  filter_debt_to_income(t, out) = out
          /\ LET out == filter_loan_to_value(t, bank_data)
             IN  filter_loan_to_value(t, out) = out
    /\ \A k \in 1 .. Len(stage_out) : ApplyFilter(k, stage_out[k]) = stage_out[k]
    /\ returned =>
          find_qualifying_loans(qualifying_loans, applicant.credit_score, applicant.debt,
              applicant.income, applicant.loan_amount, applicant.home_value)
          = qualifying_loans

\* A run whose filters removed a record and whose result is not empty.
C4_Witness ==
    /\ returned
    /\ qualifying_loans # <<>>
    /\ qualifying_loans # bank_data
    /\ \E t \in Money : filter_max_loan_size(t, bank_data) # bank_data

\* C5 as stated: once the max-loan-size filter has run, lowering the requested
\* loan amount never increases the size of the filter's output.
C5_LoweringNeverIncreases ==
    Len(stage_out) >= 1 =>
        /\ \A a2 \in Money :
              a2 <= applicant.loan_amount =>
                  Len(filter_max_loan_size(a2, bank_data)) <= Len(stage_out[1])
        /\ \A a1 \in Money, a2 \in Money :
              a2 <= a1 =>
                  Len(filter_max_loan_size(a2, bank_data))
                      <= Len(filter_max_loan_size(a1, bank_data))

\* C5 amended: once the max-loan-size filter has run, raising the requested
\* loan amount never increases the size of the filter's output (lowering it
\* never decreases the size).
C5_RaisingNeverIncreases ==
    Len(stage_out) >= 1 =>
        /\ \A a2 \in Money :
              a2 >= applicant.loan_amount =>
                  Len(filter_max_loan_size(a2, bank_data)) <= Len(stage_out[1])
        /\ \A a1 \in Money, a2 \in Money :
              a2 >= a1 =>
                  Len(filter_max_loan_size(a2, bank_data))
                      <= Len(filter_max_loan_size(a1, bank_data))

\* A higher amount than the applicant's leaves strictly fewer records.
C5_Witness ==
    /\ Len(stage_out) >= 1
    /\ \E a2 \in Money :
          /\ a2 > applicant.loan_amount
          /\ Len(filter_max_loan_size(a2, bank_data)) < Len(stage_out[1])

\* C6: once find_qualifying_loans has been entered with income = 0 or
\* home_value = 0, no filter is ever applied, nothing is returned and the save
\* step is never reached: the run ends with ZeroDivisionError (at the first ratio
\* for income = 0, at the second otherwise).  With income > 0 the first ratio is
\* computed and is exactly debt / income; with home_value > 0 also, the second is
\* exactly loan / home_value.
C6_ZeroDenominator ==
    InSeq("find_qualifying_loans", calls) =>
        /\ (applicant.income = 0 \/ applicant.home_value = 0) =>
              /\ stage_out = <<>>
              /\ bank_data_filtered = <<>>
              /\ ~returned
              /\ ~InSeq("save_qualifying_loans", calls)
              /\ sink_calls = <<>>
              /\ \/ pc = "crashed" /\ stderr = "ZeroDivisionError" /\ exit_code # 0
                 \/ pc = "calculate_loan_to_value_ratio" /\ applicant.income > 0
        /\ applicant.income = 0 => pc = "crashed" /\ stdout = <<>>
        /\ applicant.income > 0 =>
              /\ Len(stdout) >= 1
              /\ monthly_debt_ratio.den > 0
              /\ monthly_debt_ratio.num * applicant.income
                     = applicant.debt * monthly_debt_ratio.den
        /\ (applicant.income > 0 /\ applicant.home_value > 0
                /\ pc # "calculate_loan_to_value_ratio") =>
              /\ pc # "crashed"
              /\ Len(stdout) >= 2
              /\ loan_to_value_ratio.den > 0
              /\ loan_to_value_ratio.num * applicant.home_value
                     = applicant.loan_amount * loan_to_value_ratio.den

\* The second ratio fails on home_value = 0 after the first was computed, with
\* records loaded that would have been filtered.
C6_Witness ==
    /\ pc = "crashed"
    /\ stderr = "ZeroDivisionError"
    /\ applicant.income > 0
    /\ applicant.debt > 0
    /\ applicant.home_value = 0
    /\ bank_data # <<>>

\* C7: when save_qualifying_loans is entered with no qualifying loans, the run
\* ends there with the message and a non-zero exit code; the confirmation and
\* the destination path are never asked and save_csv is never called.
C7_EmptyResult ==
    (InSeq("save_qualifying_loans", calls) /\ qualifying_loans = <<>>) =>
        /\ pc = "exited"
        /\ exit_code # 0
        /\ stderr = "Sorry, there are no qualifying loans!"
        /\ saveFile = "not asked"
        /\ ~InSeq(ConfirmPrompt, prompts)
        /\ ~InSeq(PathPrompt, prompts)
        /\ sink_calls = <<>>
        /\ ~InSeq("save_csv", calls)
        /\ FilesUntouched

\* Records were loaded and every one of them was filtered out.
C7_Witness ==
    /\ InSeq("save_qualifying_loans", calls)
    /\ pc = "exited"
    /\ bank_data # <<>>
    /\ qualifying_loans = <<>>

\* C8: when the path entered does not exist, the run ends at once with the
\* message and a non-zero exit code: the prompt was shown once, nothing was
\* loaded, no applicant prompt was shown, no filter ran and nothing was saved.
C8_MissingPath ==
    (pc # "load_bank_data" /\ ~files[csvpath].exists) =>
        /\ pc = "exited"
        /\ exit_code # 0
        /\ stderr = "Oops! Can't find this path"
        /\ prompts = <<"Enter a file path to a rate-sheet (.csv):">>
        /\ calls = <<"load_bank_data">>
        /\ bank_data = <<>>
        /\ applicant = NoApplicant
        /\ stage_out = <<>>
        /\ ~returned
        /\ sink_calls = <<>>
        /\ \A p \in Paths : p # "rates.csv" => files[p] = NoFile

\* The user entered a path that is not on disk while a rate sheet with records
\* is.
C8_Witness ==
    /\ pc = "exited"
    /\ csvpath = "missing.csv"
    /\ files["rates.csv"].rows # <<>>

FindPcs ==
    {"calculate_monthly_debt_ratio", "calculate_loan_to_value_ratio",
     "filter_max_loan_size", "filter_credit_score", "filter_debt_to_income",
     "filter_loan_to_value", "return_qualifying_loans"}

\* C9: no step of find_qualifying_loans, whether it ends in a return or in a
\* failure, changes the list bank_data or the applicant's figures.
C9_ReadOnly ==
    [][(pc \in FindPcs) => (bank_data' = bank_data /\ applicant' = applicant)]_vars

\* find_qualifying_loans has returned fewer records than bank_data holds, and
\* bank_data still is what the rate sheet holds.
C9_Witness ==
    /\ pc = "save_qualifying_loans"
    /\ Len(qualifying_loans) < Len(bank_data)
    /\ bank_data = files[csvpath].rows
    /\ Len(bank_data) = MaxRows

\* C10: the functions of a run are entered at most once each and in the order
\* load, applicant info, find, save; save_csv is called at most once, only
\* after find_qualifying_loans returned a non-empty list and the user answered
\* yes, and with exactly that list; after a no nothing is written and the run
\* ends normally.
C10_SaveGating ==
    /\ IsPrefix(calls, <<"load_bank_data", "load_csv", "get_applicant_info",
                         "find_qualifying_loans", "save_qualifying_loans", "save_csv">>)
    /\ Len(sink_calls) <= 1
    /\ sink_calls = <<>> => \A p \in Paths \ {"rates.csv"} : files[p] = NoFile
    /\ sink_calls # <<>> =>
          /\ returned
          /\ qualifying_loans # <<>>
          /\ saveFile = "yes"
          /\ sink_calls[1].rows = qualifying_loans
          /\ files[sink_calls[1].path] = CsvFile(qualifying_loans)
          /\ pc = "done" /\ exit_code = 0
    /\ InSeq("save_csv", calls) <=> sink_calls # <<>>
    /\ saveFile = "no" =>
          /\ sink_calls = <<>>
          /\ FilesUntouched
          /\ pc = "done"
          /\ exit_code = 0

\* The user said yes and the qualifying loans, fewer than were loaded, were
\* handed to save_csv.
C10_Witness ==
    /\ pc = "done"
    /\ saveFile = "yes"
    /\ Len(sink_calls) = 1
    /\ Len(sink_calls[1].rows) < Len(bank_data)

=============================================================================
